---- MODULE Spec2Model ----
(***************************************************************************)
(* HTML <-> OTSL table conversion through the shared intermediate          *)
(* representation (TableStructure).  Strings are modelled as sequences of  *)
(* lexemes (OTSL) or as element trees (HTML); cell texts are sequences of  *)
(* one-character strings.  All indices are 0-based as in the source; a     *)
(* Python list l[i] is the TLA+ sequence element l[i+1].                   *)
(***************************************************************************)
EXTENDS Integers, Sequences, FiniteSets, TLC

VARIABLES pc, strict, converter, otsl_str, html_str, table, is_valid, html_out, otsl_out, table2, otsl_out2, message, cell_text, formulas

vars == <<pc, strict, converter, otsl_str, html_str, table, is_valid, html_out, otsl_out, table2, otsl_out2, message, cell_text, formulas>>

\* ------------------------------------------------------------------ bounds
\* number of lexemes (cell tokens and <nl>) in a generated OTSL body
MaxBody == 5
\* number of lexemes in a generated OTSL body when the wrapper varies
MaxWrapBody == 3
\* number of lexemes in a generated OTSL body that is converted to HTML and back
MaxGridBody == 4
\* number of elements (section, tr, td/th) of a generated HTML table
MaxHtml == 5
\* number of elements of a generated HTML table that goes through the facade
MaxFacadeHtml == 4
\* number of lexemes in an OTSL body handed to the facade
MaxFacadeBody == 6
\* rows/columns and number of cells of a directly constructed IR
MaxIRDim == 2
MaxIRCells == 2
\* rows and columns of a directly constructed IR whose cells tile the grid
MaxTileRows == 2
MaxTileCols == 2
\* sections of a table without rows
MaxEmptySections == 3
\* validate_conversion: tags of the HTML side, lexemes of the OTSL body
MaxValidateHtml == 3
MaxValidateBody == 3
\* rows of an OTSL table given row by row
MaxSpanRows == 3

\* ----------------------------------------------------------------- helpers
Min(a, b) == IF a < b THEN a ELSE b
Max(a, b) == IF a > b THEN a ELSE b
SetMax(S) == CHOOSE x \in S : \A y \in S : y <= x
SetMin(S) == CHOOSE x \in S : \A y \in S : x <= y

SeqsUpTo(S, n) == UNION {[1..k -> S] : k \in 0..n}

RECURSIVE SortedSeq(_)
SortedSeq(S) == IF S = {} THEN <<>> ELSE <<SetMin(S)>> \o SortedSeq(S \ {SetMin(S)})

SeqToSet(s) == {s[i] : i \in 1..Len(s)}

\* str.strip() on a text: drop leading and trailing blanks
RECURSIVE LStrip(_)
LStrip(t) == IF t # <<>> /\ Head(t) = " " THEN LStrip(Tail(t)) ELSE t
RECURSIVE RStrip(_)
RStrip(t) == IF t # <<>> /\ t[Len(t)] = " " THEN RStrip(SubSeq(t, 1, Len(t) - 1)) ELSE t
Strip(t) == RStrip(LStrip(t))

\* ------------------------------------------------- IR (table_structure.py)
Cell(row_idx, col_idx, rowspan, colspan, text, is_header, header_type) ==
    [row_idx |-> row_idx, col_idx |-> col_idx, rowspan |-> rowspan, colspan |-> colspan,
     text |-> text, is_header |-> is_header, header_type |-> header_type]

TableStructure(num_rows, num_cols, cells, has_border, column_headers, row_headers, has_thead, has_tbody, has_tfoot, tfoot_rows) ==
    [num_rows |-> num_rows, num_cols |-> num_cols, cells |-> cells, has_border |-> has_border,
     column_headers |-> column_headers, row_headers |-> row_headers,
     has_explicit_thead |-> has_thead, has_explicit_tbody |-> has_tbody,
     has_explicit_tfoot |-> has_tfoot, tfoot_rows |-> tfoot_rows]

\* CellContent.is_empty
is_empty(text) == Strip(text) = <<>>

\* Cell.occupies_position
occupies_position(cell, row, col) ==
    /\ cell.row_idx <= row /\ row < cell.row_idx + cell.rowspan
    /\ cell.col_idx <= col /\ col < cell.col_idx + cell.colspan

GridPositions(num_rows, num_cols) == (0..(num_rows - 1)) \X (0..(num_cols - 1))

\* TableStructure.get_occupancy_grid: the index of the last cell of the list
\* that covers the position, or -1
get_occupancy_grid(t) ==
    [p \in GridPositions(t.num_rows, t.num_cols) |->
        LET covering == {i \in 1..Len(t.cells) : occupies_position(t.cells[i], p[1], p[2])}
        IN  IF covering = {} THEN -1 ELSE SetMax(covering) - 1]

\* TableStructure.get_cell_at: the first cell of the list covering the position
get_cell_at(t, row, col) ==
    LET covering == {i \in 1..Len(t.cells) : occupies_position(t.cells[i], row, col)}
    IN  t.cells[SetMin(covering)]

\* TableStructure.get_cell_span_type
get_cell_span_type(t, row, col) ==
    IF \/ row < 0 \/ row >= t.num_rows \/ col < 0 \/ col >= t.num_cols
       \/ \A i \in 1..Len(t.cells) : ~occupies_position(t.cells[i], row, col)
    THEN "empty"
    ELSE LET cell == get_cell_at(t, row, col)
             is_colspan == col > cell.col_idx
             is_rowspan == row > cell.row_idx
         IN  IF cell.row_idx = row /\ cell.col_idx = col THEN "origin"
             ELSE IF is_colspan /\ is_rowspan THEN "both"
             ELSE IF is_colspan THEN "colspan"
             ELSE IF is_rowspan THEN "rowspan"
             ELSE "origin"

\* TableStructure.validate: TRUE iff the error list is empty
validate(t) ==
    /\ ~(t.num_rows <= 0)
    /\ ~(t.num_cols <= 0)
    /\ t.cells # <<>>
    /\ \A i \in 1..Len(t.cells) :
          LET cell == t.cells[i] IN
          /\ ~(cell.row_idx < 0 \/ cell.row_idx >= t.num_rows)
          /\ ~(cell.col_idx < 0 \/ cell.col_idx >= t.num_cols)
          /\ ~(cell.rowspan < 1)
          /\ ~(cell.colspan < 1)
          /\ ~(cell.row_idx + cell.rowspan > t.num_rows)
          /\ ~(cell.col_idx + cell.colspan > t.num_cols)
    /\ LET grid == get_occupancy_grid(t)
       IN  \A p \in GridPositions(t.num_rows, t.num_cols) : grid[p] # -1
    /\ \A k \in 1..Len(t.column_headers) :
          ~(t.column_headers[k] < 0 \/ t.column_headers[k] >= t.num_rows)
    /\ \A k \in 1..Len(t.row_headers) :
          ~(t.row_headers[k] < 0 \/ t.row_headers[k] >= t.num_cols)

\* results of a parser: an IR or a raised error
NoIR == TableStructure(0, 0, <<>>, FALSE, <<>>, <<>>, FALSE, FALSE, FALSE, <<>>)
Ok(ir) == [status |-> "ok", error |-> "", ir |-> ir]
Raise(msg) == [status |-> "error", error |-> msg, ir |-> NoIR]
NoResult == [status |-> "none", error |-> "", ir |-> NoIR]

\* ------------------------------------------------ OTSL tags (constants.py)
TAG_FILLED_CELL == "fcel"
TAG_EMPTY_CELL == "ecel"
TAG_LEFT_CELL == "lcel"
TAG_UP_CELL == "ucel"
TAG_CROSS_CELL == "xcel"
TAG_COL_HEADER == "ched"
TAG_ROW_HEADER == "rhed"
TAG_NEWLINE == "nl"
CellTags == {TAG_FILLED_CELL, TAG_EMPTY_CELL, TAG_LEFT_CELL, TAG_UP_CELL, TAG_CROSS_CELL,
             TAG_COL_HEADER, TAG_ROW_HEADER}

\* an OTSL string is a sequence of lexemes <tag>text
Lx(tag, text) == [tag |-> tag, text |-> text]

\* --------------------------------------------- OTSL parser (otsl_parser.py)
\* str.split('<nl>')
RECURSIVE SplitNl(_, _, _)
SplitNl(s, i, cur) ==
    IF i > Len(s) THEN <<cur>>
    ELSE IF s[i].tag = TAG_NEWLINE THEN <<cur>> \o SplitNl(s, i + 1, <<>>)
    ELSE SplitNl(s, i + 1, Append(cur, s[i]))

\* OTSLTableParser._parse_row_tags: the (tag, stripped text) pairs of a row
RECURSIVE OTSLTableParser_parse_row_tags(_)
OTSLTableParser_parse_row_tags(row_str) ==
    IF row_str = <<>> THEN <<>>
    ELSE IF Head(row_str).tag \in CellTags
         THEN <<Lx(Head(row_str).tag, Strip(Head(row_str).text))>>
                  \o OTSLTableParser_parse_row_tags(Tail(row_str))
         ELSE OTSLTableParser_parse_row_tags(Tail(row_str))

\* a colspan inference without the look-ahead
CountColspan_no_lookahead(current_row_tags, check_tag_idx) == 0

\* colspan look-ahead of _determine_spans_from_tags
RECURSIVE CountColspan(_, _)
CountColspan(current_row_tags, check_tag_idx) ==
    IF check_tag_idx < Len(current_row_tags)
       /\ current_row_tags[check_tag_idx + 1].tag \in {TAG_LEFT_CELL, TAG_CROSS_CELL}
    THEN 1 + CountColspan(current_row_tags, check_tag_idx + 1)
    ELSE 0

\* the for loop of _determine_spans_from_tags: each tag counts one grid
\* column, so the tag found for grid_col is the one at index grid_col
FoundTagIdx(check_row_tags, grid_col) ==
    IF grid_col < Len(check_row_tags) THEN grid_col ELSE -1

\* a rowspan look-down that tests the next row once instead of looping
CountRowspan_single_step(all_row_tags, check_row, grid_col, num_rows) ==
    IF check_row < num_rows
       /\ grid_col < Len(all_row_tags[check_row + 1])
       /\ all_row_tags[check_row + 1][grid_col + 1].tag \in {TAG_UP_CELL, TAG_CROSS_CELL}
    THEN 1 ELSE 0

\* rowspan look-down of _determine_spans_from_tags
RECURSIVE CountRowspan(_, _, _, _)
CountRowspan(all_row_tags, check_row, grid_col, num_rows) ==
    IF check_row < num_rows
    THEN LET check_row_tags == all_row_tags[check_row + 1]
             found_tag_idx == FoundTagIdx(check_row_tags, grid_col)
         IN  IF found_tag_idx >= 0 /\ found_tag_idx < Len(check_row_tags)
                /\ check_row_tags[found_tag_idx + 1].tag \in {TAG_UP_CELL, TAG_CROSS_CELL}
             THEN 1 + CountRowspan(all_row_tags, check_row + 1, grid_col, num_rows)
             ELSE 0
    ELSE 0

\* a span inference whose colspan look-ahead counts lcel but stops at xcel
OTSLTableParser_determine_spans_lcel_only(row_idx, grid_col, tag_idx, all_row_tags, num_rows, num_cols) ==
    [rowspan |-> 1 + CountRowspan(all_row_tags, row_idx + 1, grid_col, num_rows),
     colspan |-> 1 + SetMax({k \in 0..(Len(all_row_tags[row_idx + 1]) - 1 - tag_idx) :
                      \A m \in 1..k : all_row_tags[row_idx + 1][tag_idx + m + 1].tag = TAG_LEFT_CELL})]

\* OTSLTableParser._determine_spans_from_tags
OTSLTableParser_determine_spans_from_tags(row_idx, grid_col, tag_idx, all_row_tags, num_rows, num_cols) ==
    [rowspan |-> 1 + CountRowspan(all_row_tags, row_idx + 1, grid_col, num_rows),
     colspan |-> 1 + CountColspan(all_row_tags[row_idx + 1], tag_idx + 1)]

\* while grid_col < num_cols and occupancy_grid[row_idx][grid_col] != -1
RECURSIVE SkipOccupied(_, _, _, _)
SkipOccupied(occ, row_idx, grid_col, num_cols) ==
    IF grid_col < num_cols /\ occ[<<row_idx, grid_col>>] # -1
    THEN SkipOccupied(occ, row_idx, grid_col + 1, num_cols)
    ELSE grid_col

\* mark the rectangle of a committed cell, clipped to the grid
MarkOccupancy(occ, row_idx, col_idx, rowspan, colspan, num_rows, num_cols, cell_idx) ==
    [p \in DOMAIN occ |->
        IF /\ row_idx <= p[1] /\ p[1] < Min(row_idx + rowspan, num_rows)
           /\ col_idx <= p[2] /\ p[2] < Min(col_idx + colspan, num_cols)
        THEN cell_idx ELSE occ[p]]

\* the while loop of _parse_rows over one row's tag list
RECURSIVE OTSLWalkRow(_, _, _, _, _, _, _)
OTSLWalkRow(all_row_tags, row_idx, tag_idx, grid_col, st, num_rows, num_cols) ==
    LET tag_list == all_row_tags[row_idx + 1] IN
    IF ~(tag_idx < Len(tag_list)) THEN st
    ELSE
      LET tag_type == tag_list[tag_idx + 1].tag
          content_text == tag_list[tag_idx + 1].text
      IN
      IF tag_type \in {TAG_LEFT_CELL, TAG_UP_CELL, TAG_CROSS_CELL}
      THEN OTSLWalkRow(all_row_tags, row_idx, tag_idx + 1, grid_col + 1,
                [st EXCEPT !.occ =
                    IF grid_col < num_cols /\ st.occ[<<row_idx, grid_col>>] = -1
                    THEN [st.occ EXCEPT ![<<row_idx, grid_col>>] = -2]
                    ELSE st.occ],
                num_rows, num_cols)
      ELSE
        LET gc == SkipOccupied(st.occ, row_idx, grid_col, num_cols) IN
        IF gc >= num_cols THEN st
        ELSE
          LET spans == OTSLTableParser_determine_spans_from_tags(
                           row_idx, gc, tag_idx, all_row_tags, num_rows, num_cols)
              is_header == tag_type \in {TAG_COL_HEADER, TAG_ROW_HEADER}
              header_type == IF tag_type = TAG_COL_HEADER THEN "column"
                             ELSE IF tag_type = TAG_ROW_HEADER THEN "row" ELSE "none"
              cell == IF tag_type = TAG_EMPTY_CELL
                      THEN Cell(row_idx, gc, spans.rowspan, spans.colspan, <<>>, FALSE, "none")
                      ELSE Cell(row_idx, gc, spans.rowspan, spans.colspan, content_text,
                                is_header, header_type)
              cell_idx == Len(st.cells)
          IN  OTSLWalkRow(all_row_tags, row_idx, tag_idx + 1 + (spans.colspan - 1),
                    gc + spans.colspan,
                    [occ |-> MarkOccupancy(st.occ, row_idx, gc, spans.rowspan, spans.colspan,
                                           num_rows, num_cols, cell_idx),
                     cells |-> Append(st.cells, cell)],
                    num_rows, num_cols)

\* the for loop of _parse_rows over the rows
RECURSIVE OTSLWalkRows(_, _, _, _, _)
OTSLWalkRows(all_row_tags, row_idx, st, num_rows, num_cols) ==
    IF row_idx >= Len(all_row_tags) THEN st
    ELSE OTSLWalkRows(all_row_tags, row_idx + 1,
                      OTSLWalkRow(all_row_tags, row_idx, 0, 0, st, num_rows, num_cols),
                      num_rows, num_cols)

\* a padding that appends one empty cell to a short row instead of looping
PadRow_once(tag_list, max_cols) ==
    IF Len(tag_list) < max_cols THEN Append(tag_list, Lx(TAG_EMPTY_CELL, <<>>))
    ELSE IF Len(tag_list) > max_cols THEN SubSeq(tag_list, 1, max_cols)
    ELSE tag_list

\* lenient row normalization of _parse_rows: pad short rows with empty cells
\* (no row is longer than max_cols, so the truncation branch never runs)
RECURSIVE PadRow(_, _)
PadRow(tag_list, max_cols) ==
    IF Len(tag_list) < max_cols
    THEN PadRow(Append(tag_list, Lx(TAG_EMPTY_CELL, <<>>)), max_cols)
    ELSE IF Len(tag_list) > max_cols THEN SubSeq(tag_list, 1, max_cols)
    ELSE tag_list

NormalizeRows(all_row_tags, max_cols, is_strict) ==
    IF ~is_strict
    THEN [i \in 1..Len(all_row_tags) |-> PadRow(all_row_tags[i], max_cols)]
    ELSE all_row_tags

\* OTSLTableParser._parse_rows
OTSLTableParser_parse_rows(rows_raw, is_strict) ==
    LET parsed == [i \in 1..Len(rows_raw) |-> OTSLTableParser_parse_row_tags(rows_raw[i])]
        max_cols == IF Len(parsed) > 0 THEN SetMax({Len(parsed[i]) : i \in 1..Len(parsed)}) ELSE 0
        num_rows == Len(rows_raw)
        num_cols == max_cols
        all_row_tags == NormalizeRows(parsed, max_cols, is_strict)
        occupancy_grid == [p \in GridPositions(num_rows, num_cols) |-> -1]
        st == OTSLWalkRows(all_row_tags, 0, [occ |-> occupancy_grid, cells |-> <<>>],
                           num_rows, num_cols)
    IN  [cells |-> st.cells, num_rows |-> num_rows, num_cols |-> num_cols,
         all_row_tags |-> all_row_tags]

\* OTSLTableParser._identify_headers
OTSLTableParser_identify_headers(cells, num_rows, num_cols) ==
    [column_headers |-> SortedSeq({r \in 0..(num_rows - 1) :
          \E i \in 1..Len(cells) : cells[i].row_idx = r /\ cells[i].header_type = "column"}),
     row_headers |-> SortedSeq({c \in 0..(num_cols - 1) :
          \E i \in 1..Len(cells) : cells[i].col_idx = c /\ cells[i].header_type = "row"})]

\* decimal digits of str(int) and int(str)
Digits == <<"0", "1", "2", "3", "4", "5", "6", "7", "8", "9">>
IsDigit(ch) == \E d \in 1..10 : Digits[d] = ch
DigitVal(ch) == (CHOOSE d \in 1..10 : Digits[d] = ch) - 1

RECURSIVE NatToStr(_)
NatToStr(n) == IF n < 10 THEN <<Digits[n + 1]>> ELSE NatToStr(n \div 10) \o <<Digits[(n % 10) + 1]>>
\* str(n)
IntToStr(n) == IF n < 0 THEN <<"-">> \o NatToStr(0 - n) ELSE NatToStr(n)

RECURSIVE StrToNat(_)
StrToNat(t) == IF Len(t) = 1 THEN DigitVal(t[1])
               ELSE 10 * StrToNat(SubSeq(t, 1, Len(t) - 1)) + DigitVal(t[Len(t)])

\* str.split(',')
RECURSIVE SplitComma(_, _, _)
SplitComma(t, i, cur) ==
    IF i > Len(t) THEN <<cur>>
    ELSE IF t[i] = "," THEN <<cur>> \o SplitComma(t, i + 1, <<>>)
    ELSE SplitComma(t, i + 1, Append(cur, t[i]))

\* [int(x) for x in tfoot_indices.split(',')]
ParseTfootRows(t) == LET parts == SplitComma(t, 1, <<>>)
                     IN  [k \in 1..Len(parts) |-> StrToNat(parts[k])]

StartsWithTag(content, tag) == Len(content) > 0 /\ content[1].tag = tag
EndsWithTag(content, tag) == Len(content) > 0 /\ content[Len(content)].tag = tag

\* re.sub(r'(?:<loc_\d+>)+', '', content, count=1): drop the first run of
\* location lexemes
RECURSIVE DropLocRun(_)
DropLocRun(content) ==
    IF content # <<>> /\ Head(content).tag = "loc" THEN DropLocRun(Tail(content)) ELSE content
RECURSIVE StripLocation(_)
StripLocation(content) ==
    IF content = <<>> THEN <<>>
    ELSE IF Head(content).tag = "loc" THEN DropLocRun(content)
    ELSE <<Head(content)>> \o StripLocation(Tail(content))

\* a lenient wrapper handling that slices without synthesizing the wrapper
OTSLUnwrap_no_synthesis(otsl, is_strict) ==
    IF is_strict /\ ~StartsWithTag(otsl, "otsl")
    THEN [status |-> "error", error |-> "OTSL string must start with <otsl>", content |-> <<>>]
    ELSE IF is_strict /\ ~EndsWithTag(otsl, "/otsl")
    THEN [status |-> "error", error |-> "OTSL string must end with </otsl>", content |-> <<>>]
    ELSE [status |-> "ok", error |-> "", content |-> SubSeq(otsl, 2, Len(otsl) - 1)]

\* the wrapper handling of OTSLTableParser.parse (lines 59-78): the content
\* between the wrapper lexemes, or an error
OTSLUnwrap(otsl, is_strict) ==
    IF ~StartsWithTag(otsl, "otsl") /\ is_strict
    THEN [status |-> "error", error |-> "OTSL string must start with <otsl>", content |-> <<>>]
    ELSE LET c1 == IF ~StartsWithTag(otsl, "otsl") THEN <<Lx("otsl", <<>>)>> \o otsl ELSE otsl
         IN  IF ~EndsWithTag(c1, "/otsl") /\ is_strict
             THEN [status |-> "error", error |-> "OTSL string must end with </otsl>",
                   content |-> <<>>]
             ELSE LET c2 == IF ~EndsWithTag(c1, "/otsl") THEN c1 \o <<Lx("/otsl", <<>>)>> ELSE c1
                  IN  [status |-> "ok", error |-> "", content |-> SubSeq(c2, 2, Len(c2) - 1)]

\* the structure metadata of OTSLTableParser.parse (lines 92-112)
OTSLMetadata(content) ==
    LET has_thead == StartsWithTag(content, "has_thead")
        c1 == IF has_thead THEN Tail(content) ELSE content
        has_tbody == StartsWithTag(c1, "has_tbody")
        c2 == IF has_tbody THEN Tail(c1) ELSE c1
        has_tfoot == StartsWithTag(c2, "has_tfoot")
        c3 == IF has_tfoot THEN Tail(c2) ELSE c2
        tfoot_match == has_tfoot /\ StartsWithTag(c3, "tfoot_rows")
        c4 == IF tfoot_match THEN Tail(c3) ELSE c3
    IN  [has_explicit_thead |-> has_thead, has_explicit_tbody |-> has_tbody,
         has_explicit_tfoot |-> has_tfoot,
         tfoot_rows |-> IF tfoot_match THEN ParseTfootRows(c3[1].text) ELSE <<>>,
         content |-> c4]

\* OTSLTableParser.parse
OTSLTableParser_parse(otsl, is_strict) ==
    LET unwrapped == OTSLUnwrap(otsl, is_strict) IN
    IF unwrapped.status = "error" THEN Raise(unwrapped.error)
    ELSE
      LET meta == OTSLMetadata(unwrapped.content)
          content == StripLocation(meta.content)
          rows_raw == SelectSeq(SplitNl(content, 1, <<>>), LAMBDA r : r # <<>>)
      IN  IF rows_raw = <<>> THEN Raise("OTSL must have at least one row")
          ELSE LET parsed == OTSLTableParser_parse_rows(rows_raw, is_strict)
                   headers == OTSLTableParser_identify_headers(
                                  parsed.cells, parsed.num_rows, parsed.num_cols)
               IN  Ok(TableStructure(parsed.num_rows, parsed.num_cols, parsed.cells, TRUE,
                                     headers.column_headers, headers.row_headers,
                                     meta.has_explicit_thead, meta.has_explicit_tbody,
                                     meta.has_explicit_tfoot, meta.tfoot_rows))

\* --------------------------------------------- HTML parser (html_parser.py)
\* An HTML string is modelled by the element tree the HTML library returns
\* for it: a table element with a border attribute and a sequence of
\* children (thead, tbody, tfoot sections holding rows, or direct tr rows);
\* a row is a sequence of td/th elements with their span attribute values
\* (texts; the empty text when the attribute is absent) and their text.
HtmlCell(tag, rowspan, colspan, text) == [tag |-> tag, rowspan |-> rowspan, colspan |-> colspan, text |-> text]
HtmlChild(kind, rows) == [kind |-> kind, rows |-> rows]
\* the tree of an input together with the children of its table element in
\* the tree the html5lib re-parse gives (lines 92-105)
HtmlTableWithFallback(border, children, fallback) == [has_table |-> TRUE, border |-> border, children |-> children, fallback |-> fallback]
\* well-formed markup: both libraries give the same children
HtmlTable(border, children) == HtmlTableWithFallback(border, children, children)

\* re.sub(r'\s+', ' ', text).strip()
RECURSIVE CollapseWs(_)
CollapseWs(t) ==
    IF Len(t) < 2 THEN t
    ELSE IF t[1] = " " /\ t[2] = " " THEN CollapseWs(Tail(t))
    ELSE <<t[1]>> \o CollapseWs(Tail(t))
NormalizeWhitespace(t) == Strip(CollapseWs(t))

\* HTMLTableParser._get_element_text for an element without inline markup
HTMLTableParser_get_element_text(elem) == NormalizeWhitespace(elem.text)

\* HTMLTableParser._has_border
HTMLTableParser_has_border(table_elem) ==
    IF table_elem.border = "none" THEN FALSE ELSE table_elem.border # "0"

\* table_elem.xpath('./thead') etc.: the children of one kind
ChildrenOfKind(table_elem, kind) == SelectSeq(table_elem.children, LAMBDA ch : ch.kind = kind)

RECURSIVE ConcatRows(_, _)
ConcatRows(children, section) ==
    IF children = <<>> THEN <<>>
    ELSE [i \in 1..Len(Head(children).rows) |-> [cells |-> Head(children).rows[i], section |-> section]]
             \o ConcatRows(Tail(children), section)

\* HTMLTableParser._extract_rows: the rows with their section labels
HTMLTableParser_extract_rows(table_elem) ==
    LET tbodies == ChildrenOfKind(table_elem, "tbody") IN
    ConcatRows(ChildrenOfKind(table_elem, "thead"), "thead")
      \o (IF tbodies # <<>> THEN ConcatRows(tbodies, "tbody")
          ELSE ConcatRows(ChildrenOfKind(table_elem, "tr"), "tbody"))
      \o ConcatRows(ChildrenOfKind(table_elem, "tfoot"), "tfoot")

\* str.replace('\\', '')
RECURSIVE RemoveBackslashes(_)
RemoveBackslashes(t) ==
    IF t = <<>> THEN <<>>
    ELSE IF Head(t) = "\\" THEN RemoveBackslashes(Tail(t))
    ELSE <<Head(t)>> \o RemoveBackslashes(Tail(t))

\* str.strip('"\'')
IsQuote(ch) == ch = "\"" \/ ch = "'"
RECURSIVE LStripQuotes(_)
LStripQuotes(t) == IF t # <<>> /\ IsQuote(Head(t)) THEN LStripQuotes(Tail(t)) ELSE t
RECURSIVE RStripQuotes(_)
RStripQuotes(t) == IF t # <<>> /\ IsQuote(t[Len(t)]) THEN RStripQuotes(SubSeq(t, 1, Len(t) - 1)) ELSE t

\* int(sanitized) succeeds on an optionally signed run of digits
IsIntLiteral(t) ==
    LET u == Strip(t)
        body == IF u # <<>> /\ (Head(u) = "-" \/ Head(u) = "+") THEN Tail(u) ELSE u
    IN  body # <<>> /\ \A i \in 1..Len(body) : IsDigit(body[i])
ParseInt(t) ==
    LET u == Strip(t)
    IN  IF Head(u) = "-" THEN 0 - StrToNat(Tail(u))
        ELSE IF Head(u) = "+" THEN StrToNat(Tail(u))
        ELSE StrToNat(u)

\* HTMLTableParser._sanitize_span_value
HTMLTableParser_sanitize_span_value(value) ==
    IF value = <<>> THEN 1
    ELSE LET sanitized == RStripQuotes(LStripQuotes(RemoveBackslashes(Strip(value))))
         IN  IF IsIntLiteral(sanitized) THEN ParseInt(sanitized) ELSE 1

\* cell.get('colspan', '1')
GetAttr(value) == IF value = <<>> THEN <<"1">> ELSE value

RECURSIVE SumColspans(_)
SumColspans(row_cells) ==
    IF row_cells = <<>> THEN 0
    ELSE HTMLTableParser_sanitize_span_value(GetAttr(Head(row_cells).colspan)) + SumColspans(Tail(row_cells))

\* HTMLTableParser._determine_num_cols
HTMLTableParser_determine_num_cols(rows) ==
    SetMax({0} \cup {SumColspans(rows[i].cells) : i \in 1..Len(rows)})

\* list indexing l[i] of a list of length n: negative indices count from the end
PyIndex(i, n) == IF i < 0 THEN i + n ELSE i
PyIndexError(i, n) == i >= n \/ i < 0 - n

\* while col_idx < num_cols and occupancy_grid[row_idx][col_idx] != -1 (lines 365-366)
RECURSIVE HTMLSkipOccupied(_, _, _, _)
HTMLSkipOccupied(occ, row_idx, col_idx, num_cols) ==
    IF col_idx < num_cols
    THEN IF PyIndexError(col_idx, num_cols) THEN [col_idx |-> col_idx, error |-> TRUE]
         ELSE IF occ[<<row_idx, PyIndex(col_idx, num_cols)>>] # -1
              THEN HTMLSkipOccupied(occ, row_idx, col_idx + 1, num_cols)
              ELSE [col_idx |-> col_idx, error |-> FALSE]
    ELSE [col_idx |-> col_idx, error |-> FALSE]

\* mark the occupancy grid (lines 406-409)
HTMLMarkOccupancy(occ, row_idx, col_idx, rowspan, colspan, num_rows, num_cols, cell_idx) ==
    [p \in DOMAIN occ |->
        IF /\ row_idx <= p[1] /\ p[1] < Min(row_idx + rowspan, num_rows)
           /\ \E c \in col_idx..(Min(col_idx + colspan, num_cols) - 1) : PyIndex(c, num_cols) = p[2]
        THEN cell_idx ELSE occ[p]]

\* the loop of _build_cells over the td/th elements of one row
RECURSIVE HTMLWalkCells(_, _, _, _, _, _, _, _)
HTMLWalkCells(row_cells, k, row_idx, col_idx, section, st, num_rows, num_cols) ==
    IF k > Len(row_cells) \/ st.error THEN st
    ELSE
      LET cell_elem == row_cells[k]
          skip == HTMLSkipOccupied(st.occ, row_idx, col_idx, num_cols)
          col == skip.col_idx
      IN
      IF skip.error THEN [st EXCEPT !.error = TRUE]
      ELSE IF col >= num_cols
      THEN HTMLWalkCells(row_cells, k + 1, row_idx, col, section, st, num_rows, num_cols)
      ELSE
        LET max_rowspan == num_rows - row_idx
            max_colspan == num_cols - col
            rowspan == Min(HTMLTableParser_sanitize_span_value(GetAttr(cell_elem.rowspan)), max_rowspan)
            colspan == Min(HTMLTableParser_sanitize_span_value(GetAttr(cell_elem.colspan)), max_colspan)
            is_header == cell_elem.tag = "th" \/ section = "thead"
            header_type == IF section = "thead" THEN "column"
                           ELSE IF col = 0 /\ is_header THEN "row" ELSE "none"
            cell == Cell(row_idx, col, rowspan, colspan,
                         HTMLTableParser_get_element_text(cell_elem), is_header, header_type)
            cell_idx == Len(st.cells)
        IN  HTMLWalkCells(row_cells, k + 1, row_idx, col + colspan, section,
                [occ |-> HTMLMarkOccupancy(st.occ, row_idx, col, rowspan, colspan,
                                           num_rows, num_cols, cell_idx),
                 cells |-> Append(st.cells, cell), error |-> FALSE],
                num_rows, num_cols)

RECURSIVE HTMLWalkRows(_, _, _, _, _)
HTMLWalkRows(rows, row_idx, st, num_rows, num_cols) ==
    IF row_idx >= Len(rows) THEN st
    ELSE HTMLWalkRows(rows, row_idx + 1,
             HTMLWalkCells(rows[row_idx + 1].cells, 1, row_idx, 0, rows[row_idx + 1].section,
                           st, num_rows, num_cols),
             num_rows, num_cols)

\* HTMLTableParser._build_cells
HTMLTableParser_build_cells(rows, num_rows, num_cols) ==
    HTMLWalkRows(rows, 0, [occ |-> [p \in GridPositions(num_rows, num_cols) |-> -1],
                           cells |-> <<>>, error |-> FALSE], num_rows, num_cols)

\* empty-row adjustment of HTMLTableParser.parse (lines 128-172)
RowMapping(empty_row_indices, old_idx) ==
    Cardinality({r \in 0..(old_idx - 1) : r \notin empty_row_indices})

\* an adjustment that renumbers the row of a cell but keeps its rowspan
AdjustCell_keep_rowspan(cell, empty_row_indices) ==
    [cell EXCEPT !.row_idx = RowMapping(empty_row_indices, cell.row_idx)]

AdjustCell(cell, empty_row_indices) ==
    LET original_end_row == cell.row_idx + cell.rowspan
        new_rowspan == 1 + Cardinality({r \in (cell.row_idx + 1)..(original_end_row - 1) :
                                            r \notin empty_row_indices})
    IN  [cell EXCEPT !.row_idx = RowMapping(empty_row_indices, cell.row_idx),
                     !.rowspan = new_rowspan]

RECURSIVE FilterEmptyRows(_, _)
FilterEmptyRows(cells, empty_row_indices) ==
    IF cells = <<>> THEN <<>>
    ELSE IF Head(cells).row_idx \in empty_row_indices
         THEN FilterEmptyRows(Tail(cells), empty_row_indices)
         ELSE <<AdjustCell(Head(cells), empty_row_indices)>>
                  \o FilterEmptyRows(Tail(cells), empty_row_indices)

\* gap filling of HTMLTableParser.parse (lines 174-199): one empty 1x1 cell
\* for each position no cell covers, appended in row-major order
RECURSIVE GapCells(_, _)
GapCells(cells, gaps) ==
    IF gaps = <<>> THEN cells
    ELSE GapCells(Append(cells, Cell(Head(gaps)[1], Head(gaps)[2], 1, 1, <<>>, FALSE, "none")),
                  Tail(gaps))

RowMajor(num_rows, num_cols) ==
    [k \in 1..(num_rows * num_cols) |-> <<(k - 1) \div num_cols, (k - 1) % num_cols>>]

\* a gap filling that stops after the first uncovered position
FillGaps_first_gap(cells, num_rows, num_cols) ==
    LET covered(p) == \E i \in 1..Len(cells) : occupies_position(cells[i], p[1], p[2])
        order == IF num_rows > 0 /\ num_cols > 0 THEN RowMajor(num_rows, num_cols) ELSE <<>>
        gaps == SelectSeq(order, LAMBDA p : ~covered(p))
    IN  GapCells(cells, IF gaps = <<>> THEN <<>> ELSE <<Head(gaps)>>)

FillGaps(cells, num_rows, num_cols) ==
    LET covered(p) == \E i \in 1..Len(cells) :
            /\ cells[i].row_idx <= p[1]
            /\ p[1] < Min(cells[i].row_idx + cells[i].rowspan, num_rows)
            /\ cells[i].col_idx <= p[2]
            /\ p[2] < Min(cells[i].col_idx + cells[i].colspan, num_cols)
        order == IF num_rows > 0 /\ num_cols > 0 THEN RowMajor(num_rows, num_cols) ELSE <<>>
    IN  GapCells(cells, SelectSeq(order, LAMBDA p : ~covered(p)))

\* HTMLTableParser._identify_headers
HTMLTableParser_identify_headers(cells, row_sections, num_rows, num_cols) ==
    LET thead_rows == SelectSeq([i \in 1..Len(row_sections) |-> i - 1],
                                LAMBDA r : row_sections[r + 1] = "thead")
        first_row_cells == SelectSeq(cells, LAMBDA c : c.row_idx = 0)
        column_headers ==
            IF thead_rows # <<>> THEN thead_rows
            ELSE IF first_row_cells # <<>>
                    /\ \A i \in 1..Len(first_row_cells) : first_row_cells[i].is_header
                 THEN <<0>> ELSE <<>>
        first_col_cells == SelectSeq(cells, LAMBDA c :
                               c.col_idx = 0 /\ c.row_idx \notin SeqToSet(column_headers))
        row_headers == IF first_col_cells # <<>>
                          /\ \A i \in 1..Len(first_col_cells) : first_col_cells[i].is_header
                       THEN <<0>> ELSE <<>>
    IN  [column_headers |-> column_headers, row_headers |-> row_headers]

\* a minimal table without its cell
MinimalTable_no_cell == TableStructure(1, 1, <<>>, TRUE, <<>>, <<>>, FALSE, FALSE, FALSE, <<>>)

\* the minimal table lenient mode returns when there are no rows (lines 113-119)
MinimalTable ==
    TableStructure(1, 1, <<Cell(0, 0, 1, 1, <<>>, FALSE, "none")>>, TRUE, <<>>, <<>>, FALSE, FALSE, FALSE, <<>>)

\* HTMLTableParser.parse
HTMLTableParser_parse(html, is_strict) ==
    IF ~html.has_table THEN Raise("No table element found in HTML")
    ELSE
      LET lxml_rows == HTMLTableParser_extract_rows(html)
          empty_row_indices == IF ~is_strict
                               THEN {i \in 0..(Len(lxml_rows) - 1) : lxml_rows[i + 1].cells = <<>>}
                               ELSE {}
          table_elem == IF lxml_rows = <<>> THEN [html EXCEPT !.children = html.fallback] ELSE html
          all_rows == HTMLTableParser_extract_rows(table_elem)
          row_sections == [i \in 1..Len(all_rows) |-> all_rows[i].section]
      IN
      IF all_rows = <<>>
      THEN IF is_strict THEN Raise("Table has no rows")
           ELSE Ok(MinimalTable)
      ELSE
        LET num_cols == HTMLTableParser_determine_num_cols(all_rows)
            num_rows_before == Len(all_rows)
            built == HTMLTableParser_build_cells(all_rows, num_rows_before, num_cols)
            adjust == ~is_strict /\ empty_row_indices # {}
            cells1 == IF adjust THEN FilterEmptyRows(built.cells, empty_row_indices)
                      ELSE built.cells
            num_rows == IF adjust THEN RowMapping(empty_row_indices, num_rows_before)
                        ELSE num_rows_before
            cells == IF ~is_strict THEN FillGaps(cells1, num_rows, num_cols) ELSE cells1
            headers == HTMLTableParser_identify_headers(cells, row_sections, num_rows, num_cols)
            tfoot_rows == SelectSeq([i \in 1..Len(row_sections) |-> i - 1],
                                    LAMBDA r : row_sections[r + 1] = "tfoot")
        IN  IF built.error THEN Raise("IndexError: list index out of range")
            ELSE Ok(TableStructure(num_rows, num_cols, cells,
                                   HTMLTableParser_has_border(table_elem),
                                   headers.column_headers, headers.row_headers,
                                   ChildrenOfKind(table_elem, "thead") # <<>>,
                                   ChildrenOfKind(table_elem, "tbody") # <<>>,
                                   ChildrenOfKind(table_elem, "tfoot") # <<>>,
                                   tfoot_rows))

\* --------------------------------------------- HTML builder (html_builder.py)
NoOut == [status |-> "none", error |-> "", out |-> <<>>]
Built(out) == [status |-> "ok", error |-> "", out |-> out]
BuildError(msg) == [status |-> "error", error |-> msg, out |-> <<>>]

\* sorted(list): ascending, duplicates kept
RECURSIVE SortInts(_)
SortInts(l) ==
    IF l = <<>> THEN <<>>
    ELSE LET m == SetMin(SeqToSet(l))
         IN  SelectSeq(l, LAMBDA x : x = m) \o SortInts(SelectSeq(l, LAMBDA x : x # m))

\* HTMLTableBuilder._organize_rows
HTMLTableBuilder_organize_rows(t) ==
    LET thead_rows == SortInts(t.column_headers)
        all_rows == [i \in 1..t.num_rows |-> i - 1]
    IN  [thead_rows |-> thead_rows,
         tbody_rows |-> SelectSeq(all_rows, LAMBDA r : r \notin SeqToSet(thead_rows))]

\* row_cells.sort(key=lambda c: c.col_idx): stable
RECURSIVE SortByCol(_)
SortByCol(row_cells) ==
    IF row_cells = <<>> THEN <<>>
    ELSE LET m == SetMin({row_cells[i].col_idx : i \in 1..Len(row_cells)})
         IN  SelectSeq(row_cells, LAMBDA c : c.col_idx = m)
                 \o SortByCol(SelectSeq(row_cells, LAMBDA c : c.col_idx # m))

\* the loop of _build_row over the row's cells, with the added_cols set
RECURSIVE EmitRowCells(_, _)
EmitRowCells(row_cells, added_cols) ==
    IF row_cells = <<>> THEN <<>>
    ELSE LET cell == Head(row_cells) IN
         IF cell.col_idx \in added_cols THEN EmitRowCells(Tail(row_cells), added_cols)
         ELSE <<HtmlCell(IF cell.is_header THEN "th" ELSE "td",
                         IF cell.rowspan > 1 THEN IntToStr(cell.rowspan) ELSE <<>>,
                         IF cell.colspan > 1 THEN IntToStr(cell.colspan) ELSE <<>>,
                         cell.text)>>
                  \o EmitRowCells(Tail(row_cells),
                         added_cols \cup (cell.col_idx..(cell.col_idx + cell.colspan - 1)))

\* HTMLTableBuilder._build_row: the tr element of a row index
HTMLTableBuilder_build_row(t, row_idx) ==
    EmitRowCells(SortByCol(SelectSeq(t.cells, LAMBDA c : c.row_idx = row_idx)), {})

\* HTMLTableBuilder.build
HTMLTableBuilder_build(t, include_borders, normalize_for_teds) ==
    IF ~validate(t) THEN BuildError("Invalid table structure")
    ELSE
      LET org == HTMLTableBuilder_organize_rows(t)
          thead_rows == org.thead_rows
          rows_to_include == IF thead_rows # <<>> THEN thead_rows ELSE <<0>>
          thead == IF thead_rows # <<>> \/ normalize_for_teds
                   THEN <<HtmlChild("thead", [k \in 1..Len(rows_to_include) |->
                                        HTMLTableBuilder_build_row(t, rows_to_include[k])])>>
                   ELSE <<>>
          tbody_start == IF thead_rows # <<>> THEN SetMax(SeqToSet(thead_rows)) + 1
                         ELSE IF normalize_for_teds THEN 1 ELSE 0
          body_rows == SelectSeq(org.tbody_rows, LAMBDA r : r >= tbody_start)
          tbody == <<HtmlChild("tbody", [k \in 1..Len(body_rows) |->
                                   HTMLTableBuilder_build_row(t, body_rows[k])])>>
      IN  Built(HtmlTable(IF include_borders /\ t.has_border THEN "1" ELSE "none",
                          thead \o tbody))

\* --------------------------------------------- OTSL builder (otsl_builder.py)
\* OTSLTableBuilder._format_cell
OTSLTableBuilder_format_cell(cell, t) ==
    LET tag == IF cell.header_type = "column"
                  \/ (cell.is_header /\ cell.row_idx \in SeqToSet(t.column_headers))
               THEN TAG_COL_HEADER
               ELSE IF cell.header_type = "row"
                       \/ (cell.is_header /\ cell.col_idx \in SeqToSet(t.row_headers))
               THEN TAG_ROW_HEADER
               ELSE IF ~is_empty(cell.text) THEN TAG_FILLED_CELL
               ELSE TAG_EMPTY_CELL
    IN  Lx(tag, IF tag = TAG_EMPTY_CELL THEN <<>> ELSE cell.text)

\* the lexemes _build_table_content emits for one grid position
OTSLPositionLexemes(t, occupancy_grid, row_idx, col_idx) ==
    LET cell_idx == occupancy_grid[<<row_idx, col_idx>>] IN
    IF cell_idx = -1 THEN <<Lx(TAG_EMPTY_CELL, <<>>)>>
    ELSE LET cell == t.cells[cell_idx + 1] IN
         IF cell.row_idx = row_idx /\ cell.col_idx = col_idx
         THEN <<OTSLTableBuilder_format_cell(cell, t)>>
         ELSE LET span_type == get_cell_span_type(t, row_idx, col_idx) IN
              IF span_type = "colspan" THEN <<Lx(TAG_LEFT_CELL, <<>>)>>
              ELSE IF span_type = "rowspan" THEN <<Lx(TAG_UP_CELL, <<>>)>>
              ELSE IF span_type = "both" THEN <<Lx(TAG_CROSS_CELL, <<>>)>>
              ELSE <<>>

RECURSIVE OTSLRowLexemes(_, _, _, _)
OTSLRowLexemes(t, occupancy_grid, row_idx, col_idx) ==
    IF col_idx >= t.num_cols THEN <<Lx(TAG_NEWLINE, <<>>)>>
    ELSE OTSLPositionLexemes(t, occupancy_grid, row_idx, col_idx)
             \o OTSLRowLexemes(t, occupancy_grid, row_idx, col_idx + 1)

RECURSIVE OTSLRowsLexemes(_, _, _)
OTSLRowsLexemes(t, occupancy_grid, row_idx) ==
    IF row_idx >= t.num_rows THEN <<>>
    ELSE OTSLRowLexemes(t, occupancy_grid, row_idx, 0)
             \o OTSLRowsLexemes(t, occupancy_grid, row_idx + 1)

\* OTSLTableBuilder._build_table_content
OTSLTableBuilder_build_table_content(t) == OTSLRowsLexemes(t, get_occupancy_grid(t), 0)

\* ','.join(str(r) for r in sorted(table.tfoot_rows))
RECURSIVE JoinComma(_)
JoinComma(l) ==
    IF l = <<>> THEN <<>>
    ELSE IF Len(l) = 1 THEN IntToStr(l[1])
    ELSE IntToStr(l[1]) \o <<",">> \o JoinComma(Tail(l))

\* OTSLTableBuilder._generate_location_tags: four random coordinates; the
\* random source is a choice among LocationChoices
OTSLTableBuilder_generate_location_tags(loc) ==
    [k \in 1..4 |-> Lx("loc", IntToStr(loc[k]))]

\* the extreme outcomes of the four random.randint calls
LocationChoices == {<<30, 80, 300, 200>>, <<200, 300, 800, 600>>}

\* a builder that emits without validating first
OTSLTableBuilder_build_unvalidated(t, include_location, loc) ==
    Built(<<Lx("otsl", <<>>)>>
          \o (IF include_location THEN OTSLTableBuilder_generate_location_tags(loc) ELSE <<>>)
          \o OTSLTableBuilder_build_table_content(t)
          \o <<Lx("/otsl", <<>>)>>)

\* OTSLTableBuilder.build
OTSLTableBuilder_build(t, include_location, loc) ==
    IF ~validate(t) THEN BuildError("Invalid table structure")
    ELSE Built(<<Lx("otsl", <<>>)>>
               \o (IF t.has_explicit_thead THEN <<Lx("has_thead", <<>>)>> ELSE <<>>)
               \o (IF t.has_explicit_tbody THEN <<Lx("has_tbody", <<>>)>> ELSE <<>>)
               \o (IF t.has_explicit_tfoot
                   THEN <<Lx("has_tfoot", <<>>)>>
                        \o (IF t.tfoot_rows # <<>>
                            THEN <<Lx("tfoot_rows", JoinComma(SortInts(t.tfoot_rows)))>>
                            ELSE <<>>)
                   ELSE <<>>)
               \o (IF include_location THEN OTSLTableBuilder_generate_location_tags(loc)
                   ELSE <<>>)
               \o OTSLTableBuilder_build_table_content(t)
               \o <<Lx("/otsl", <<>>)>>)

\* ------------------------------------------- converter facade (converters.py)
\* TableConverter.__init__(self, preserve_latex=True): the keyword arguments
\* of the call are the set kwargs; any other keyword is a TypeError
TableConverter_init(kwargs) ==
    IF kwargs \subseteq {"preserve_latex"}
    THEN [status |-> "ok", error |-> "", kwargs |-> kwargs]
    ELSE [status |-> "error", error |-> "TypeError: unexpected keyword argument", kwargs |-> kwargs]

\* no validation message yet
NoMessage == <<>>
NoText == <<>>
NoFormulas == <<>>

NoConverter == [status |-> "none", error |-> "", kwargs |-> {}]
DefaultConverter == TableConverter_init({})

\* TableConverter.html_to_ir: HTMLTableParser(preserve_latex=...) is strict
TableConverter_html_to_ir(html) == HTMLTableParser_parse(html, TRUE)

\* TableConverter.otsl_to_ir: OTSLTableParser(preserve_latex=...) is strict
TableConverter_otsl_to_ir(otsl) == OTSLTableParser_parse(otsl, TRUE)

\* TableConverter.ir_to_html with its default options
TableConverter_ir_to_html(t) == HTMLTableBuilder_build(t, TRUE, FALSE)

\* TableConverter.html_to_otsl with its default options; a parser error propagates
TableConverter_html_to_otsl(html, loc) ==
    LET table_ir == HTMLTableParser_parse(html, TRUE)
    IN  IF table_ir.status = "error" THEN BuildError(table_ir.error)
        ELSE OTSLTableBuilder_build(table_ir.ir, TRUE, loc)

\* TableConverter.otsl_to_html with its default options
TableConverter_otsl_to_html(otsl) ==
    LET table_ir == OTSLTableParser_parse(otsl, TRUE)
    IN  IF table_ir.status = "error" THEN BuildError(table_ir.error)
        ELSE HTMLTableBuilder_build(table_ir.ir, TRUE, FALSE)

\* the outcome of a call: a returned (is_valid, message) pair, or an
\* exception leaving the call
Returned(valid, msg) == [status |-> "returned", is_valid |-> valid, message |-> msg, error |-> ""]
Raised(err) == [status |-> "raised", is_valid |-> FALSE, message |-> NoMessage, error |-> err]

\* the loop "for html_cell, otsl_cell in zip(html_ir.cells, otsl_ir.cells)"
\* of validate_conversion from its i-th pair on: the first pair that
\* differs in position, then span, then stripped text returns
RECURSIVE CompareCells(_, _, _)
CompareCells(html_cells, otsl_cells, i) ==
    IF i > Min(Len(html_cells), Len(otsl_cells))
    THEN Returned(TRUE, <<"Conversion is valid - structures match">>)
    ELSE LET html_cell == html_cells[i]
             otsl_cell == otsl_cells[i]
         IN  IF html_cell.row_idx # otsl_cell.row_idx \/ html_cell.col_idx # otsl_cell.col_idx
             THEN Returned(FALSE, <<"Cell position mismatch at", html_cell.row_idx, html_cell.col_idx>>)
             ELSE IF html_cell.rowspan # otsl_cell.rowspan \/ html_cell.colspan # otsl_cell.colspan
             THEN Returned(FALSE, <<"Cell span mismatch at", html_cell.row_idx, html_cell.col_idx>>)
             ELSE IF Strip(html_cell.text) # Strip(otsl_cell.text)
             THEN Returned(FALSE, <<"Content mismatch at", html_cell.row_idx, html_cell.col_idx>>)
             ELSE CompareCells(html_cells, otsl_cells, i + 1)

\* the comparisons of the try block on the two parsed IRs: the dimensions,
\* the cell counts, then the cells
CompareStructures(html_ir, otsl_ir) ==
    IF html_ir.num_rows # otsl_ir.num_rows
    THEN Returned(FALSE, <<"Row count mismatch", html_ir.num_rows, otsl_ir.num_rows>>)
    ELSE IF html_ir.num_cols # otsl_ir.num_cols
    THEN Returned(FALSE, <<"Column count mismatch", html_ir.num_cols, otsl_ir.num_cols>>)
    ELSE IF Len(html_ir.cells) # Len(otsl_ir.cells)
    THEN Returned(FALSE, <<"Cell count mismatch", Len(html_ir.cells), Len(otsl_ir.cells)>>)
    ELSE CompareCells(html_ir.cells, otsl_ir.cells, 1)

\* the try block on the outcomes of the two parses: an error of the HTML
\* parse leaves the block first, then one of the OTSL parse
TryCompare(html_result, otsl_result) ==
    IF html_result.status = "error" THEN Raised(html_result.error)
    ELSE IF otsl_result.status = "error" THEN Raised(otsl_result.error)
    ELSE CompareStructures(html_result.ir, otsl_result.ir)

\* the try block of TableConverter.validate_conversion: parse both sides
\* (HTML first), then compare
validate_conversion_try(html, otsl) ==
    TryCompare(TableConverter_html_to_ir(html), TableConverter_otsl_to_ir(otsl))

\* "except Exception as e: return False, f'Validation error: {str(e)}'"
ExceptException(r) ==
    IF r.status = "raised" THEN Returned(FALSE, <<"Validation error", r.error>>) ELSE r

\* validate_conversion without its except clause: a parser error leaves the call
TableConverter_validate_conversion_uncaught(html, otsl) == validate_conversion_try(html, otsl)

\* TableConverter.validate_conversion(html, otsl)
TableConverter_validate_conversion(html, otsl) == ExceptException(validate_conversion_try(html, otsl))

\* ------------------------------------------------------------ generated inputs
NoOTSL == <<>>
NoHTML == [has_table |-> FALSE, border |-> "none", children |-> <<>>, fallback |-> <<>>]

\* the lexemes of a generated OTSL body: the seven cell tokens (content
\* tokens followed by a text) and the row terminator
BodyLexemes == {Lx(TAG_FILLED_CELL, <<"a">>), Lx(TAG_COL_HEADER, <<"h">>),
                Lx(TAG_ROW_HEADER, <<"r">>), Lx(TAG_EMPTY_CELL, <<>>),
                Lx(TAG_LEFT_CELL, <<>>), Lx(TAG_UP_CELL, <<>>), Lx(TAG_CROSS_CELL, <<>>),
                Lx(TAG_NEWLINE, <<>>)}

Wrapped(body) == <<Lx("otsl", <<>>)>> \o body \o <<Lx("/otsl", <<>>)>>

\* an HTML table is generated from a sequence of opening tags: a section
\* tag opens a section, tr opens a row in the open section (or a direct
\* row), a td/th is added to the open row
HtmlTag(kind, elem) == [kind |-> kind, elem |-> elem]
Td(rowspan, colspan) == HtmlTag("cell", HtmlCell("td", rowspan, colspan, <<"a">>))
Th(rowspan, colspan) == HtmlTag("cell", HtmlCell("th", rowspan, colspan, <<"a">>))
Open(kind) == HtmlTag(kind, HtmlCell("", <<>>, <<>>, <<>>))

AddHtmlTag(children, tg) ==
    LET n == Len(children) IN
    IF tg.kind \in {"thead", "tbody", "tfoot"} THEN Append(children, HtmlChild(tg.kind, <<>>))
    ELSE IF tg.kind = "tr"
    THEN IF n > 0 /\ children[n].kind # "tr"
         THEN [children EXCEPT ![n].rows = Append(@, <<>>)]
         ELSE Append(children, HtmlChild("tr", << <<>> >>))
    ELSE IF n = 0 \/ children[n].rows = <<>> THEN children
    ELSE LET m == Len(children[n].rows)
         IN  [children EXCEPT ![n].rows[m] = Append(@, tg.elem)]

RECURSIVE HtmlChildrenOf(_, _)
HtmlChildrenOf(tags, children) ==
    IF tags = <<>> THEN children
    ELSE HtmlChildrenOf(Tail(tags), AddHtmlTag(children, Head(tags)))

HtmlTreeOf(tags) == HtmlTable("none", HtmlChildrenOf(tags, <<>>))

HtmlTags == {Open("tr"), Open("thead"), Td(<<>>, <<>>), Th(<<>>, <<>>),
             Td(<<"2">>, <<>>), Td(<<>>, <<"2">>), Td(<<>>, <<"0">>)}

\* ----------------------------------------------------------------- pipelines
\* OTSLTableParser(strict).parse(otsl_str)
OTSLParse ==
    /\ pc = "otsl_in"
    /\ table' = OTSLTableParser_parse(otsl_str, strict)
    /\ pc' = "parsed"
    /\ UNCHANGED <<strict, converter, otsl_str, html_str, is_valid, html_out, otsl_out, table2, otsl_out2, message, cell_text, formulas>>

\* HTMLTableParser(strict).parse(html_str)
HTMLParse ==
    /\ pc = "html_in"
    /\ table' = HTMLTableParser_parse(html_str, strict)
    /\ pc' = "parsed"
    /\ UNCHANGED <<strict, converter, otsl_str, html_str, is_valid, html_out, otsl_out, table2, otsl_out2, message, cell_text, formulas>>

\* the OTSL parser on bodies of cell tokens, in both modes
InitOTSL ==
    /\ pc = "otsl_in"
    /\ strict \in BOOLEAN
    /\ \E b \in SeqsUpTo(BodyLexemes, MaxBody) :
          /\ converter = DefaultConverter
          /\ otsl_str = Wrapped(b)
          /\ html_str = NoHTML
          /\ table = NoResult
          /\ is_valid = FALSE
          /\ message = NoMessage
          /\ cell_text = NoText
          /\ formulas = NoFormulas
          /\ html_out = NoOut
          /\ otsl_out = NoOut
          /\ table2 = NoResult
          /\ otsl_out2 = NoOut

NextOTSL == OTSLParse

SpecOTSL == InitOTSL /\ [][NextOTSL]_vars

\* the HTML parser on generated tables, in both modes
InitHTML ==
    /\ pc = "html_in"
    /\ strict \in BOOLEAN
    /\ \E tags \in SeqsUpTo(HtmlTags, MaxHtml) :
          /\ converter = DefaultConverter
          /\ otsl_str = NoOTSL
          /\ html_str = HtmlTreeOf(tags)
          /\ table = NoResult
          /\ is_valid = FALSE
          /\ message = NoMessage
          /\ cell_text = NoText
          /\ formulas = NoFormulas
          /\ html_out = NoOut
          /\ otsl_out = NoOut
          /\ table2 = NoResult
          /\ otsl_out2 = NoOut

NextHTML == HTMLParse

SpecHTML == InitHTML /\ [][NextHTML]_vars

\* directly constructed IRs, valid or not: up to MaxIRCells different cells
\* whose origin is in the grid and whose spans fit or stick out by one, a
\* cell with its origin outside the grid, and a cell with colspan 0
IRCells(nr, nc) ==
    {cell \in {Cell(r, c, rs, cs, <<"a">>, FALSE, "none") :
                  r \in 0..(nr - 1), c \in 0..(nc - 1), rs \in 1..(nr + 1), cs \in 1..(nc + 1)} :
        cell.row_idx + cell.rowspan <= nr + 1 /\ cell.col_idx + cell.colspan <= nc + 1}
    \cup {Cell(nr, nc, 1, 1, <<"a">>, FALSE, "none"), Cell(0, 0, 1, 0, <<"a">>, FALSE, "none")}

RECURSIVE SetToSeq(_)
SetToSeq(S) == IF S = {} THEN <<>> ELSE LET x == CHOOSE y \in S : TRUE IN <<x>> \o SetToSeq(S \ {x})

\* the lists of n different cells of a pool, in one order each
CellLists(pool, n) ==
    LET l == SetToSeq(pool)
    IN  {[i \in 1..n |-> l[f[i]]] : f \in {g \in [1..n -> 1..Len(l)] : \A i \in 1..(n - 1) : g[i] < g[i + 1]}}

InitIR ==
    /\ pc = "ir_in"
    /\ strict = TRUE
    /\ \E nr \in 1..MaxIRDim, nc \in 1..MaxIRDim, n \in 0..MaxIRCells, ch \in {<<>>, <<1>>} :
          \E cells \in CellLists(IRCells(nr, nc), n) :
             /\ converter = DefaultConverter
             /\ otsl_str = NoOTSL
             /\ html_str = NoHTML
             /\ table = Ok(TableStructure(nr, nc, cells, TRUE, ch, <<>>, FALSE, FALSE, FALSE, <<>>))
             /\ is_valid = FALSE
             /\ message = NoMessage
             /\ cell_text = NoText
             /\ formulas = NoFormulas
             /\ html_out = NoOut
             /\ otsl_out = NoOut
             /\ table2 = NoResult
             /\ otsl_out2 = NoOut

\* table.validate()
ValidateIR ==
    /\ pc = "ir_in"
    /\ is_valid' = validate(table.ir)
    /\ pc' = "validated"
    /\ UNCHANGED <<strict, converter, otsl_str, html_str, table, html_out, otsl_out, table2, otsl_out2, message, cell_text, formulas>>

\* HTMLTableBuilder(normalize_for_teds=...).build(table)
BuildHTML ==
    /\ pc = "validated"
    /\ \E normalize_for_teds \in BOOLEAN :
          html_out' = HTMLTableBuilder_build(table.ir, TRUE, normalize_for_teds)
    /\ pc' = "html_built"
    /\ UNCHANGED <<strict, converter, otsl_str, html_str, table, is_valid, otsl_out, table2, otsl_out2, message, cell_text, formulas>>

\* OTSLTableBuilder(include_location=...).build(table)
BuildOTSL ==
    /\ pc \in {"validated", "tiling_in"}
    /\ \E include_location \in BOOLEAN, loc \in LocationChoices :
          otsl_out' = OTSLTableBuilder_build(table.ir, include_location, loc)
    /\ pc' = "otsl_built"
    /\ UNCHANGED <<strict, converter, otsl_str, html_str, table, is_valid, html_out, table2, otsl_out2, message, cell_text, formulas>>

NextIR == ValidateIR \/ BuildHTML \/ BuildOTSL

SpecIR == InitIR /\ [][NextIR]_vars

\* the HTML round trip of a parsed IR: OTSL bodies in both modes
InitOTSLGrid ==
    /\ pc = "otsl_in"
    /\ strict \in BOOLEAN
    /\ \E b \in SeqsUpTo(BodyLexemes, MaxGridBody) :
          /\ converter = DefaultConverter
          /\ otsl_str = Wrapped(b)
          /\ html_str = NoHTML
          /\ table = NoResult
          /\ is_valid = FALSE
          /\ message = NoMessage
          /\ cell_text = NoText
          /\ formulas = NoFormulas
          /\ html_out = NoOut
          /\ otsl_out = NoOut
          /\ table2 = NoResult
          /\ otsl_out2 = NoOut

\* converter.ir_to_html(table)
IRToHTML ==
    /\ pc = "parsed"
    /\ table.status = "ok"
    /\ html_out' = TableConverter_ir_to_html(table.ir)
    /\ pc' = "ir_html"
    /\ UNCHANGED <<strict, converter, otsl_str, html_str, table, is_valid, otsl_out, table2, otsl_out2, message, cell_text, formulas>>

\* converter.html_to_ir(html)
HtmlToIr ==
    /\ pc = "ir_html"
    /\ html_out.status = "ok"
    /\ table2' = TableConverter_html_to_ir(html_out.out)
    /\ pc' = "html_reparsed"
    /\ UNCHANGED <<strict, converter, otsl_str, html_str, table, is_valid, html_out, otsl_out, otsl_out2, message, cell_text, formulas>>

NextOTSLGrid == OTSLParse \/ IRToHTML \/ HtmlToIr

SpecOTSLGrid == InitOTSLGrid /\ [][NextOTSLGrid]_vars

\* IRs whose cells tile the grid: the rectangles are placed at the first
\* free position in row-major order
Rect(p, rs, cs) == {<<r, c>> \in (p[1]..(p[1] + rs - 1)) \X (p[2]..(p[2] + cs - 1)) : TRUE}

FirstFree(free) ==
    CHOOSE p \in free : \A q \in free : p[1] < q[1] \/ (p[1] = q[1] /\ p[2] <= q[2])

RECURSIVE Tilings(_, _, _)
Tilings(nr, nc, covered) ==
    LET free == GridPositions(nr, nc) \ covered IN
    IF free = {} THEN {<<>>}
    ELSE LET p == FirstFree(free)
             fits == {sp \in (1..(nr - p[1])) \X (1..(nc - p[2])) : Rect(p, sp[1], sp[2]) \cap covered = {}}
         IN  UNION {{<<[row_idx |-> p[1], col_idx |-> p[2], rowspan |-> sp[1], colspan |-> sp[2]]>> \o t :
                        t \in Tilings(nr, nc, covered \cup Rect(p, sp[1], sp[2]))} : sp \in fits}

\* the contents a cell of a tiling can have: filled, empty, blank, padded,
\* column header, row header, header without a type
CellKinds == <<[text |-> <<"a">>, is_header |-> FALSE, header_type |-> "none"],
               [text |-> <<>>, is_header |-> FALSE, header_type |-> "none"],
               [text |-> <<" ">>, is_header |-> FALSE, header_type |-> "none"],
               [text |-> <<" ", "a", " ">>, is_header |-> FALSE, header_type |-> "none"],
               [text |-> <<"h">>, is_header |-> TRUE, header_type |-> "column"],
               [text |-> <<"r">>, is_header |-> TRUE, header_type |-> "row"],
               [text |-> <<"a">>, is_header |-> TRUE, header_type |-> "none"]>>

Reversed(l) == [i \in 1..Len(l) |-> l[Len(l) + 1 - i]]

\* the cells of the tiling take their contents from CellKinds in turn,
\* starting at offset and advancing by stride
TilingCells(geom, offset, stride) ==
    [i \in 1..Len(geom) |->
        LET kind == CellKinds[((offset + stride * i) % Len(CellKinds)) + 1]
        IN  Cell(geom[i].row_idx, geom[i].col_idx, geom[i].rowspan, geom[i].colspan,
                 kind.text, kind.is_header, kind.header_type)]

InitTiling ==
    /\ pc = "tiling_in"
    /\ strict = TRUE
    /\ \E nr \in 1..MaxTileRows, nc \in 1..MaxTileCols, offset \in 0..(Len(CellKinds) - 1),
          stride \in 1..3, rev \in BOOLEAN, thead \in BOOLEAN :
          \E geom \in Tilings(nr, nc, {}) :
             LET cells == TilingCells(geom, offset, stride) IN
             /\ converter = DefaultConverter
             /\ otsl_str = NoOTSL
             /\ html_str = NoHTML
             /\ table = Ok(TableStructure(nr, nc, IF rev THEN Reversed(cells) ELSE cells, TRUE,
                                          IF thead THEN <<0>> ELSE <<>>, <<>>, thead, thead, FALSE, <<>>))
             /\ is_valid = TRUE
             /\ message = NoMessage
             /\ cell_text = NoText
             /\ formulas = NoFormulas
             /\ html_out = NoOut
             /\ otsl_out = NoOut
             /\ table2 = NoResult
             /\ otsl_out2 = NoOut

\* OTSLTableParser(strict=True).parse(otsl)
OTSLReparse ==
    /\ pc = "otsl_built"
    /\ otsl_out.status = "ok"
    /\ table2' = OTSLTableParser_parse(otsl_out.out, TRUE)
    /\ pc' = "otsl_reparsed"
    /\ UNCHANGED <<strict, converter, otsl_str, html_str, table, is_valid, html_out, otsl_out, otsl_out2, message, cell_text, formulas>>

NextTiling == BuildOTSL \/ OTSLReparse

SpecTiling == InitTiling /\ [][NextTiling]_vars

\* the facade's HTML -> OTSL -> HTML -> OTSL chain on generated tables
FacadeHtmlTags == {Open("tr"), Open("thead"), Open("tbody"), Td(<<>>, <<>>), Th(<<>>, <<>>),
                   Td(<<>>, <<"2">>)}

InitFacadeHTML ==
    /\ pc = "html_in"
    /\ strict = TRUE
    /\ \E tags \in SeqsUpTo(FacadeHtmlTags, MaxFacadeHtml) :
          /\ converter = DefaultConverter
          /\ otsl_str = NoOTSL
          /\ html_str = HtmlTreeOf(tags)
          /\ table = NoResult
          /\ is_valid = FALSE
          /\ message = NoMessage
          /\ cell_text = NoText
          /\ formulas = NoFormulas
          /\ html_out = NoOut
          /\ otsl_out = NoOut
          /\ table2 = NoResult
          /\ otsl_out2 = NoOut

\* converter.html_to_otsl(h)
HtmlToOtsl ==
    /\ pc = "html_in"
    /\ \E loc \in LocationChoices : otsl_out' = TableConverter_html_to_otsl(html_str, loc)
    /\ pc' = "otsl1"
    /\ UNCHANGED <<strict, converter, otsl_str, html_str, table, is_valid, html_out, table2, otsl_out2, message, cell_text, formulas>>

\* converter.otsl_to_html(otsl)
OtslToHtml ==
    /\ pc = "otsl1"
    /\ otsl_out.status = "ok"
    /\ html_out' = TableConverter_otsl_to_html(otsl_out.out)
    /\ pc' = "html2"
    /\ UNCHANGED <<strict, converter, otsl_str, html_str, table, is_valid, otsl_out, table2, otsl_out2, message, cell_text, formulas>>

\* converter.html_to_otsl(html) on the rebuilt HTML
HtmlToOtsl2 ==
    /\ pc = "html2"
    /\ html_out.status = "ok"
    /\ \E loc \in LocationChoices : otsl_out2' = TableConverter_html_to_otsl(html_out.out, loc)
    /\ pc' = "otsl2"
    /\ UNCHANGED <<strict, converter, otsl_str, html_str, table, is_valid, html_out, otsl_out, table2, message, cell_text, formulas>>

NextFacadeHTML == HtmlToOtsl \/ OtslToHtml \/ HtmlToOtsl2

SpecFacadeHTML == InitFacadeHTML /\ [][NextFacadeHTML]_vars

\* constructing a converter with or without the strict option, then
\* otsl_to_ir on complete and truncated OTSL strings
FacadeLexemes == {Lx(TAG_FILLED_CELL, <<"a">>), Lx(TAG_NEWLINE, <<>>)}

InitFacade ==
    /\ pc = "new"
    /\ strict \in BOOLEAN
    /\ \E b \in SeqsUpTo(FacadeLexemes, MaxFacadeBody), closed \in BOOLEAN :
          /\ converter = NoConverter
          /\ otsl_str = <<Lx("otsl", <<>>)>> \o b \o (IF closed THEN <<Lx("/otsl", <<>>)>> ELSE <<>>)
          /\ html_str = NoHTML
          /\ table = NoResult
          /\ is_valid = FALSE
          /\ message = NoMessage
          /\ cell_text = NoText
          /\ formulas = NoFormulas
          /\ html_out = NoOut
          /\ otsl_out = NoOut
          /\ table2 = NoResult
          /\ otsl_out2 = NoOut

\* TableConverter(**kwargs): strict = False has to be passed, strict = True
\* is also the documented default
NewConverter ==
    /\ pc = "new"
    /\ \E kwargs \in SUBSET {"strict", "preserve_latex"} :
          /\ ~strict => "strict" \in kwargs
          /\ converter' = TableConverter_init(kwargs)
    /\ pc' = IF converter'.status = "ok" THEN "ready" ELSE "failed"
    /\ UNCHANGED <<strict, otsl_str, html_str, table, is_valid, html_out, otsl_out, table2, otsl_out2, message, cell_text, formulas>>

\* converter.otsl_to_ir(otsl_str)
OtslToIr ==
    /\ pc = "ready"
    /\ table' = TableConverter_otsl_to_ir(otsl_str)
    /\ pc' = "parsed"
    /\ UNCHANGED <<strict, converter, otsl_str, html_str, is_valid, html_out, otsl_out, table2, otsl_out2, message, cell_text, formulas>>

NextFacade == NewConverter \/ OtslToIr

SpecFacade == InitFacade /\ [][NextFacade]_vars

\* the OTSL parser on bodies with and without the wrapper tags
InitWrap ==
    /\ pc = "otsl_in"
    /\ strict \in BOOLEAN
    /\ \E b \in SeqsUpTo(BodyLexemes, MaxWrapBody), opened \in BOOLEAN, closed \in BOOLEAN :
          /\ converter = DefaultConverter
          /\ otsl_str = (IF opened THEN <<Lx("otsl", <<>>)>> ELSE <<>>) \o b
                            \o (IF closed THEN <<Lx("/otsl", <<>>)>> ELSE <<>>)
          /\ html_str = NoHTML
          /\ table = NoResult
          /\ is_valid = FALSE
          /\ message = NoMessage
          /\ cell_text = NoText
          /\ formulas = NoFormulas
          /\ html_out = NoOut
          /\ otsl_out = NoOut
          /\ table2 = NoResult
          /\ otsl_out2 = NoOut

NextWrap == OTSLParse

SpecWrap == InitWrap /\ [][NextWrap]_vars

\* tables in which lxml finds no row: sections without rows, with the
\* children the html5lib re-parse finds (the same, or a recovered row)
EmptySections == {HtmlChild("thead", <<>>), HtmlChild("tbody", <<>>), HtmlChild("tfoot", <<>>)}

RecoveredChildren == <<HtmlChild("tbody", <<<<HtmlCell("td", <<>>, <<>>, <<"a">>)>>>>)>>

\* a re-parse that recovers a row without cells before the row with a cell
RecoveredWithEmptyRow == <<HtmlChild("tbody", <<<<>>, <<HtmlCell("td", <<>>, <<>>, <<"a">>)>>>>)>>

InitEmptyTable ==
    /\ pc = "html_in"
    /\ strict \in BOOLEAN
    /\ \E children \in SeqsUpTo(EmptySections, MaxEmptySections), border \in {"none", "0", "1"} :
          \E fallback \in {children, RecoveredChildren, RecoveredWithEmptyRow} :
             /\ converter = DefaultConverter
             /\ otsl_str = NoOTSL
             /\ html_str = HtmlTableWithFallback(border, children, fallback)
             /\ table = NoResult
             /\ is_valid = FALSE
             /\ message = NoMessage
             /\ cell_text = NoText
             /\ formulas = NoFormulas
             /\ html_out = NoOut
             /\ otsl_out = NoOut
             /\ table2 = NoResult
             /\ otsl_out2 = NoOut

NextEmptyTable == HTMLParse

SpecEmptyTable == InitEmptyTable /\ [][NextEmptyTable]_vars

\* validate_conversion on generated pairs of an HTML table and an OTSL string
ValidateHtmlTags == {Open("tr"), Td(<<>>, <<>>), Td(<<>>, <<"2">>)}
ValidateLexemes == {Lx(TAG_FILLED_CELL, <<"a">>), Lx(TAG_FILLED_CELL, <<"b">>),
                    Lx(TAG_LEFT_CELL, <<>>), Lx(TAG_UP_CELL, <<>>), Lx(TAG_NEWLINE, <<>>)}

InitValidate ==
    /\ pc = "pair_in"
    /\ strict = TRUE
    /\ converter = DefaultConverter
    /\ html_str \in {HtmlTreeOf(tags) : tags \in SeqsUpTo(ValidateHtmlTags, MaxValidateHtml)}
    /\ otsl_str \in {Wrapped(b) : b \in SeqsUpTo(ValidateLexemes, MaxValidateBody)}
    /\ table = NoResult
    /\ is_valid = FALSE
    /\ message = NoMessage
    /\ cell_text = NoText
    /\ formulas = NoFormulas
    /\ html_out = NoOut
    /\ otsl_out = NoOut
    /\ table2 = NoResult
    /\ otsl_out2 = NoOut

\* is_valid, message = converter.validate_conversion(html_str, otsl_str)
ValidateConversion ==
    /\ pc = "pair_in"
    /\ \E r \in {TableConverter_validate_conversion(html_str, otsl_str)} :
          /\ pc' = IF r.status = "raised" THEN "raised" ELSE "compared"
          /\ is_valid' = r.is_valid
          /\ message' = r.message
    /\ UNCHANGED <<strict, converter, otsl_str, html_str, table, html_out, otsl_out, table2, otsl_out2, cell_text, formulas>>

NextValidate == ValidateConversion

SpecValidate == InitValidate /\ [][NextValidate]_vars

\* the OTSL parser on tables given row by row: every row is one of a few
\* token lists, among them rows with spans in both directions, rows whose
\* origin tokens stand where a span from above arrives, and a short row
RowShapes ==
    LET F == Lx(TAG_FILLED_CELL, <<"a">>)
        E == Lx(TAG_EMPTY_CELL, <<>>)
        L == Lx(TAG_LEFT_CELL, <<>>)
        U == Lx(TAG_UP_CELL, <<>>)
        X == Lx(TAG_CROSS_CELL, <<>>)
    IN  {<<F, F, F>>, <<F, L, F>>, <<F, L, L>>, <<U, F, F>>, <<U, X, F>>, <<F, U, F>>,
         <<U, U, U>>, <<E, L, F>>, <<E, U, F>>, <<F, X, U>>, <<F, F>>, <<F>>,
         <<Lx(TAG_COL_HEADER, <<"h">>), Lx(TAG_ROW_HEADER, <<"r">>), F>>}

\* the rows joined into a body, each followed by <nl>
RECURSIVE JoinRows(_)
JoinRows(rows) == IF rows = <<>> THEN <<>> ELSE Head(rows) \o <<Lx(TAG_NEWLINE, <<>>)>> \o JoinRows(Tail(rows))

InitSpans ==
    /\ pc = "otsl_in"
    /\ strict \in BOOLEAN
    /\ \E rows \in SeqsUpTo(RowShapes, MaxSpanRows) :
          /\ converter = DefaultConverter
          /\ otsl_str = Wrapped(JoinRows(rows))
          /\ html_str = NoHTML
          /\ table = NoResult
          /\ is_valid = FALSE
          /\ message = NoMessage
          /\ cell_text = NoText
          /\ formulas = NoFormulas
          /\ html_out = NoOut
          /\ otsl_out = NoOut
          /\ table2 = NoResult
          /\ otsl_out2 = NoOut

NextSpans == OTSLParse

SpecSpans == InitSpans /\ [][NextSpans]_vars

\* ------------------------------------------------------------ LaTeX handler
\* A text is a sequence of atoms: single characters and whole tags such as
\* "<sup>" and "</sup>"; positions are counted in characters.
MaxText == 5

LaTeXFormula(original_text, start_pos, end_pos, formula_type) ==
    [original_text |-> original_text, start_pos |-> start_pos, end_pos |-> end_pos,
     formula_type |-> formula_type]

\* the character position at which atom i of the text starts (match.start();
\* match.end() is the start of the atom after the match)
RECURSIVE PosOf(_, _)
PosOf(text, i) == IF i <= 1 THEN 0 ELSE PosOf(text, i - 1) + Len(text[i - 1])

\* [^\$]+ : the index after the longest run of atoms other than "$" from k on
RECURSIVE RunEnd(_, _)
RunEnd(text, k) == IF k > Len(text) \/ text[k] = "$" THEN k ELSE RunEnd(text, k + 1)

Dollars(text, i, n) == \A d \in 0..(n - 1) : i + d <= Len(text) /\ text[i + d] = "$"

\* DISPLAY_PATTERN (n = 2) and INLINE_PATTERN (n = 1) tried at atom i: the
\* index of the last atom of the match, 0 when there is none
DelimiterMatch(text, i, n) ==
    IF ~Dollars(text, i, n) THEN 0
    ELSE LET e == RunEnd(text, i + n)
         IN  IF e > i + n /\ Dollars(text, e, n) THEN e + n - 1 ELSE 0

\* (.*?)</\1> : the first closing tag of the name after atom i, 0 when none
RECURSIVE ClosingTag(_, _, _)
ClosingTag(text, i, name) ==
    IF i > Len(text) THEN 0
    ELSE IF text[i] = "</" \o name \o ">" THEN i
    ELSE ClosingTag(text, i + 1, name)

\* MATH_TAG_PATTERN and SUP_SUB_PATTERN tried at atom i, names the
\* alternatives of the first group
TagMatch(text, i, names) ==
    IF \E name \in names : text[i] = "<" \o name \o ">"
    THEN ClosingTag(text, i + 1, CHOOSE name \in names : text[i] = "<" \o name \o ">")
    ELSE 0

PatternMatch(text, i, pattern) ==
    CASE pattern = "display" -> DelimiterMatch(text, i, 2)
      [] pattern = "inline" -> DelimiterMatch(text, i, 1)
      [] pattern = "math_tag" -> TagMatch(text, i, {"math", "formula", "equation"})
      [] pattern = "sup_sub" -> TagMatch(text, i, {"sup", "sub"})

\* regex.finditer(text): the matches from left to right, each search
\* starting where the match before it ended
RECURSIVE finditer(_, _, _)
finditer(text, i, pattern) ==
    IF i > Len(text) THEN <<>>
    ELSE LET last == PatternMatch(text, i, pattern)
         IN  IF last # 0 THEN <<[first |-> i, last |-> last]>> \o finditer(text, last + 1, pattern)
             ELSE finditer(text, i + 1, pattern)

LatexSymbols == {"^", "_", "{", "}", "\\", "=", "+", "-"}
LatexLetters == {"a", "b", "x", "y"}

\* LaTeXHandler._looks_like_latex
LaTeXHandler_looks_like_latex(text) ==
    LET has_command == \E k \in 1..(Len(text) - 1) : text[k] = "\\" /\ text[k + 1] \in LatexLetters
        has_symbols == \E k \in 1..Len(text) : text[k] \in LatexSymbols
        stripped == Strip(text)
        is_currency == stripped # <<>> /\ \A k \in 1..Len(stripped) :
                           IsDigit(stripped[k]) \/ stripped[k] \in {",", ".", " "}
    IN  has_command \/ (has_symbols /\ ~is_currency)

\* any(f.start_pos <= match.start() < f.end_pos for f in formulas)
StartsInside(found, start) ==
    \E k \in 1..Len(found) : found[k].start_pos <= start /\ start < found[k].end_pos

\* one `for match in ...finditer(text)` loop of extract_formulas
RECURSIVE ExtractPhase(_, _, _, _)
ExtractPhase(text, matches, found, pattern) ==
    IF matches = <<>> THEN found
    ELSE LET m == Head(matches)
             start == PosOf(text, m.first)
             end == PosOf(text, m.last + 1)
             skipped == pattern # "display" /\ StartsInside(found, start)
             delimiters == IF pattern = "display" THEN 2 ELSE 1
             wanted == pattern \in {"math_tag", "sup_sub"}
                         \/ LaTeXHandler_looks_like_latex(SubSeq(text, m.first + delimiters, m.last - delimiters))
             formula_type == CASE pattern = "display" -> "display"
                               [] pattern = "inline" -> "inline"
                               [] pattern = "math_tag" -> "tag"
                               [] pattern = "sup_sub" -> "tag_" \o SubSeq(text[m.first], 2, Len(text[m.first]) - 1)
         IN  ExtractPhase(text, Tail(matches),
                          IF ~skipped /\ wanted
                          THEN Append(found, LaTeXFormula(SubSeq(text, m.first, m.last), start, end, formula_type))
                          ELSE found,
                          pattern)

\* formulas.sort(key=lambda f: f.start_pos): a stable sort
RECURSIVE SortByStart(_)
SortByStart(found) ==
    IF found = <<>> THEN <<>>
    ELSE LET least == CHOOSE k \in 1..Len(found) :
                         \A j \in 1..Len(found) :
                            found[k].start_pos < found[j].start_pos
                               \/ (found[k].start_pos = found[j].start_pos /\ k <= j)
         IN  <<found[least]>> \o SortByStart([j \in 1..(Len(found) - 1) |->
                                                IF j < least THEN found[j] ELSE found[j + 1]])

\* LaTeXHandler.extract_formulas
LaTeXHandler_extract_formulas(text) ==
    LET display == ExtractPhase(text, finditer(text, 1, "display"), <<>>, "display")
        inline == ExtractPhase(text, finditer(text, 1, "inline"), display, "inline")
        tags == ExtractPhase(text, finditer(text, 1, "math_tag"), inline, "math_tag")
        sup_sub == ExtractPhase(text, finditer(text, 1, "sup_sub"), tags, "sup_sub")
    IN  SortByStart(sup_sub)

TextAtoms == {"$", "=", "1", "<sup>", "</sup>", "<math>", "</math>"}

\* LaTeXHandler().extract_formulas(cell_text)
ExtractFormulas ==
    /\ pc = "text_in"
    /\ formulas' = LaTeXHandler_extract_formulas(cell_text)
    /\ pc' = "extracted"
    /\ UNCHANGED <<strict, converter, otsl_str, html_str, table, is_valid, html_out, otsl_out, table2, otsl_out2, message, cell_text>>

\* the LaTeX tagger on generated texts
InitLatex ==
    /\ pc = "text_in"
    /\ strict = TRUE
    /\ converter = DefaultConverter
    /\ otsl_str = NoOTSL
    /\ html_str = NoHTML
    /\ table = NoResult
    /\ is_valid = FALSE
    /\ message = NoMessage
    /\ cell_text \in SeqsUpTo(TextAtoms, MaxText)
    /\ formulas = NoFormulas
    /\ html_out = NoOut
    /\ otsl_out = NoOut
    /\ table2 = NoResult
    /\ otsl_out2 = NoOut

NextLatex == ExtractFormulas

SpecLatex == InitLatex /\ [][NextLatex]_vars

CoverCount(t, p) == Cardinality({i \in 1..Len(t.cells) : occupies_position(t.cells[i], p[1], p[2])})

C4_ValidateExactCover ==
    (pc = "validated" /\ is_valid)
        => \A p \in GridPositions(table.ir.num_rows, table.ir.num_cols) : CoverCount(table.ir, p) = 1

Tiles(t) == \A p \in GridPositions(t.num_rows, t.num_cols) : CoverCount(t, p) = 1

\* the cells of an IR by origin, spans and trimmed text
CellShapes(t) ==
    {[row_idx |-> t.cells[i].row_idx, col_idx |-> t.cells[i].col_idx, rowspan |-> t.cells[i].rowspan,
      colspan |-> t.cells[i].colspan, text |-> Strip(t.cells[i].text)] : i \in 1..Len(t.cells)}

SameGrid(a, b) ==
    /\ a.num_rows = b.num_rows
    /\ a.num_cols = b.num_cols
    /\ Len(a.cells) = Len(b.cells)
    /\ CellShapes(a) = CellShapes(b)

StructuralOTSL(otsl) ==
    LET kept == SelectSeq(otsl, LAMBDA x : x.tag # "loc")
    IN  [i \in 1..Len(kept) |-> Lx(kept[i].tag, Strip(kept[i].text))]

TruncatedOTSL ==
    <<Lx("otsl", <<>>), Lx(TAG_FILLED_CELL, <<"a">>), Lx(TAG_FILLED_CELL, <<"a">>), Lx(TAG_NEWLINE, <<>>),
      Lx(TAG_FILLED_CELL, <<"a">>), Lx(TAG_FILLED_CELL, <<"a">>), Lx(TAG_NEWLINE, <<>>)>>

\* C9: the converter facade takes a strict option and applies it to its
\* parsers: built with strict = false it parses the truncated string into a
\* 2x2 IR, built with strict = true it fails with "must end with </otsl>"
C9_FacadeStrictOption ==
    /\ (pc # "new" /\ "strict" \in converter.kwargs) => converter.status = "ok"
    /\ (pc = "parsed" /\ ~strict /\ otsl_str = TruncatedOTSL)
          => (table.status = "ok" /\ table.ir.num_rows = 2 /\ table.ir.num_cols = 2)
    /\ (pc = "parsed" /\ strict /\ otsl_str = TruncatedOTSL)
          => (table.status = "error" /\ table.error = "OTSL string must end with </otsl>")

\* the input without its wrapper lexemes
WrapBody(otsl) == SelectSeq(otsl, LAMBDA x : x.tag \notin {"otsl", "/otsl"})

SpansInGrid(t, cell) ==
    /\ 1 <= cell.rowspan
    /\ cell.rowspan <= t.num_rows - cell.row_idx
    /\ 1 <= cell.colspan
    /\ cell.colspan <= t.num_cols - cell.col_idx

HasOverlongRowspan(html) ==
    LET rows == HTMLTableParser_extract_rows(html) IN
    \E r \in 1..Len(rows) : \E k \in 1..Len(rows[r].cells) :
        HTMLTableParser_sanitize_span_value(GetAttr(rows[r].cells[k].rowspan)) > Len(rows) - (r - 1)

NoRowsAtAll(html) ==
    /\ html.has_table
    /\ HTMLTableParser_extract_rows(html) = <<>>
    /\ HTMLTableParser_extract_rows([html EXCEPT !.children = html.fallback]) = <<>>

\* C13: for a table element without any extractable row, the lenient HTML
\* parser returns a 1x1 IR with exactly one empty non-header 1x1 cell that
\* passes validate(), and the strict parser fails with 'Table has no rows'
C13_EmptyTable ==
    (pc = "parsed" /\ NoRowsAtAll(html_str)) =>
        /\ ~strict => /\ table.status = "ok"
                      /\ table.ir.num_rows = 1
                      /\ table.ir.num_cols = 1
                      /\ table.ir.cells = <<Cell(0, 0, 1, 1, <<>>, FALSE, "none")>>
                      /\ validate(table.ir)
        /\ strict => (table.status = "error" /\ table.error = "Table has no rows")

\* a table with sections but no row was parsed in lenient mode
C13_Witness ==
    /\ pc = "parsed"
    /\ ~strict
    /\ NoRowsAtAll(html_str)
    /\ html_str.children # <<>>
    /\ table.status = "ok"

SameStructure(a, b) ==
    /\ a.num_rows = b.num_rows
    /\ a.num_cols = b.num_cols
    /\ Len(a.cells) = Len(b.cells)
    /\ \A i \in 1..Min(Len(a.cells), Len(b.cells)) :
          /\ a.cells[i].row_idx = b.cells[i].row_idx
          /\ a.cells[i].col_idx = b.cells[i].col_idx
          /\ a.cells[i].rowspan = b.cells[i].rowspan
          /\ a.cells[i].colspan = b.cells[i].colspan
          /\ Strip(a.cells[i].text) = Strip(b.cells[i].text)

\* both parses succeed and their IRs agree
BothParseAndAgree(html_result, otsl_result) ==
    html_result.status = "ok" /\ otsl_result.status = "ok" /\ SameStructure(html_result.ir, otsl_result.ir)

SameResult(a, b) == a.num_rows = b.num_rows /\ a.num_cols = b.num_cols /\ a.cells = b.cells

OTSLRowTags(otsl, is_strict) ==
    LET content == StripLocation(OTSLMetadata(OTSLUnwrap(otsl, is_strict).content).content)
        rows_raw == SelectSeq(SplitNl(content, 1, <<>>), LAMBDA r : r # <<>>)
    IN  OTSLTableParser_parse_rows(rows_raw, is_strict).all_row_tags

OriginTags == {TAG_FILLED_CELL, TAG_EMPTY_CELL, TAG_COL_HEADER, TAG_ROW_HEADER}

\* the token indices (from 0) of the origin tokens of a tag list, in order
OriginIndices(tag_list) == SortedSeq({i \in 0..(Len(tag_list) - 1) : tag_list[i + 1].tag \in OriginTags})

\* the cells of the IR that start in row r, in list order: the while loop
\* commits them from the row's origin tokens in order, so the j-th of them
\* comes from the j-th origin token of the row
CellsOfRow(cells, r) == SelectSeq(cells, LAMBDA c : c.row_idx = r)

\* how many consecutive rows below row r hold ucel or xcel at token index i
RunBelow(all_row_tags, r, i) ==
    SetMax({k \in 0..(Len(all_row_tags) - 1 - r) :
        \A m \in 1..k : /\ i < Len(all_row_tags[r + m + 1])
                        /\ all_row_tags[r + m + 1][i + 1].tag \in {TAG_UP_CELL, TAG_CROSS_CELL}})

RunRight(tag_list, i) ==
    SetMax({k \in 0..(Len(tag_list) - 1 - i) :
        \A m \in 1..k : tag_list[i + m + 1].tag \in {TAG_LEFT_CELL, TAG_CROSS_CELL}})

\* no cell of an earlier row reaches into row r
NothingFromAbove(cells, r) ==
    \A k \in 1..Len(cells) : cells[k].row_idx < r => cells[k].row_idx + cells[k].rowspan <= r

RECURSIVE OriginCount(_)
OriginCount(all_row_tags) ==
    IF all_row_tags = <<>> THEN 0
    ELSE Len(OriginIndices(Head(all_row_tags))) + OriginCount(Tail(all_row_tags))

OTSLRawRowTags(otsl, is_strict) ==
    LET content == StripLocation(OTSLMetadata(OTSLUnwrap(otsl, is_strict).content).content)
        rows_raw == SelectSeq(SplitNl(content, 1, <<>>), LAMBDA r : r # <<>>)
    IN  [i \in 1..Len(rows_raw) |-> OTSLTableParser_parse_row_tags(rows_raw[i])]

\* normalized is raw with every row padded at its end to n entries by empty ecel
PaddedTo(raw, normalized, n) ==
    /\ Len(normalized) = Len(raw)
    /\ \A i \in 1..Len(raw) :
          /\ Len(normalized[i]) = n
          /\ SubSeq(normalized[i], 1, Len(raw[i])) = raw[i]
          /\ \A k \in (Len(raw[i]) + 1)..n : normalized[i][k] = Lx(TAG_EMPTY_CELL, <<>>)

SectionRows(html, kind) ==
    LET rows == ConcatRows(ChildrenOfKind(html, kind), kind)
    IN  [i \in 1..Len(rows) |-> rows[i].cells]

\* C22: building HTML (normalize_for_teds off) from an IR that passes
\* validate() emits every row index exactly once, the rows of
\* column_headers inside thead and all others inside tbody, in ascending
\* order
C22_RowPartition ==
    (pc = "html_built" /\ is_valid /\ html_out = HTMLTableBuilder_build(table.ir, TRUE, FALSE)) =>
        \E t \in {table.ir} :
            LET head == SortedSeq(SeqToSet(t.column_headers))
                body == SortedSeq((0..(t.num_rows - 1)) \ SeqToSet(t.column_headers))
            IN  /\ html_out.status = "ok"
                /\ SectionRows(html_out.out, "thead") = [k \in 1..Len(head) |-> HTMLTableBuilder_build_row(t, head[k])]
                /\ SectionRows(html_out.out, "tbody") = [k \in 1..Len(body) |-> HTMLTableBuilder_build_row(t, body[k])]

\* the rows of cell tokens of a built OTSL string: its cell tokens and row
\* terminators, split at the terminators (the piece after the last
\* terminator is empty)
BuiltRows(otsl) == SplitNl(SelectSeq(otsl, LAMBDA x : x.tag \in CellTags \cup {TAG_NEWLINE}), 1, <<>>)

\* the token the grid emission is to put at (r, c)
ExpectedTokenAt(t, tag, r, c) ==
    IF \E i \in 1..Len(t.cells) : t.cells[i].row_idx = r /\ t.cells[i].col_idx = c
    THEN tag \in {TAG_COL_HEADER, TAG_ROW_HEADER, TAG_FILLED_CELL, TAG_EMPTY_CELL}
    ELSE \A i \in 1..Len(t.cells) :
            occupies_position(t.cells[i], r, c) =>
                tag = IF t.cells[i].row_idx = r THEN TAG_LEFT_CELL
                      ELSE IF t.cells[i].col_idx = c THEN TAG_UP_CELL
                      ELSE TAG_CROSS_CELL

ExpectedContentToken(cell, t) ==
    IF cell.header_type = "column" \/ cell.row_idx \in SeqToSet(t.column_headers)
    THEN Lx(TAG_COL_HEADER, cell.text)
    ELSE IF cell.header_type = "row" \/ (cell.is_header /\ cell.col_idx \in SeqToSet(t.row_headers))
    THEN Lx(TAG_ROW_HEADER, cell.text)
    ELSE IF Strip(cell.text) # <<>> THEN Lx(TAG_FILLED_CELL, cell.text)
    ELSE Lx(TAG_EMPTY_CELL, <<>>)

EmptyRowsOf(rows) == {i \in 0..(Len(rows) - 1) : rows[i + 1].cells = <<>>}

\* the cells of the rows as built before any row is removed
CellsBeforeRemoval(rows) ==
    HTMLTableParser_build_cells(rows, Len(rows), HTMLTableParser_determine_num_cols(rows)).cells

\* cell as it must look once the rows in empty are removed
AfterRemoval(cell, empty) ==
    [cell EXCEPT !.row_idx = cell.row_idx - Cardinality({e \in empty : e < cell.row_idx}),
                 !.rowspan = cell.rowspan - Cardinality({e \in empty : cell.row_idx < e /\ e < cell.row_idx + cell.rowspan})]

CellsBeforeGapFill(rows) ==
    LET orig == CellsBeforeRemoval(rows)
    IN  [i \in 1..Len(orig) |-> AfterRemoval(orig[i], EmptyRowsOf(rows))]

\* the positions of a num_rows x num_cols grid that no cell of cells covers
Uncovered(cells, num_rows, num_cols) ==
    {p \in GridPositions(num_rows, num_cols) :
        \A i \in 1..Len(cells) : ~occupies_position(cells[i], p[1], p[2])}

C30_OrderedNonOverlapping ==
    pc = "extracted" =>
        \A i, j \in 1..Len(formulas) :
            i < j => /\ formulas[i].start_pos <= formulas[j].start_pos
                     /\ formulas[i].end_pos <= formulas[j].start_pos

====
